---- MODULE Spec2Model ----
(***************************************************************************)
(* Flatbush (Go port): a static, bulk-loaded spatial index over            *)
(* axis-aligned 2D boxes.  The model is the generic Flatbush[T Coord]      *)
(* instantiated at T = int8: Add, Reserve, Finish, Search and SearchFast   *)
(* over the flat node array, with finishIndexBuild (Hilbert ranks,         *)
(* dual-key quicksort, bottom-up packing) and searchInTree translated      *)
(* from the source.                                                        *)
(*                                                                         *)
(* Go slices are 0-based: At(s, i) reads s[i].  A uint32 is the set of its *)
(* one-bits (a subset of 0..31), so that the 32-bit Hilbert ranks keep     *)
(* their width.                                                            *)
(***************************************************************************)
EXTENDS Integers, Sequences, FiniteSets, TLC

\* ------------------------------------------------------------------ bounds
\* most Add calls in one run
MaxItems == 3
\* most Finish calls in one run
MaxFinish == 2
\* most Reserve calls in one run
MaxReserve == 1
\* largest size handed to Reserve in the runs that build with a reservation
MaxReserveSize == 4
\* longest slice handed to sortValuesAndBoxes on its own
MaxSortLen == 4
\* highest curve order below 16 whose whole grid is handed to hilbertXYToIndex
MaxGridOrder == 3

\* ------------------------------------------------------- program constants
\* NewFlatbush: NodeSize: 16
DefaultNodeSize == 16
\* finishIndexBuild: if nodeSize < 2 { nodeSize = 2 }
MinNodeSize == 2
\* finishIndexBuild: hilbertXYToIndex(16, x, y)
HilbertOrder == 16
\* math.MinInt8, math.MaxInt8
MinInt8 == -128
MaxInt8 == 127

\* ------------------------------------------------------------- Go helpers
At(s, i) == s[i + 1]

InRange(s, i) == i >= 0 /\ i < Len(s)

\* Swap that overwrites s[i] and loses its old value
SwapCopy(s, i, j) == [s EXCEPT ![i + 1] = s[j + 1]]

\* s[i], s[j] = s[j], s[i]
Swap(s, i, j) == [s EXCEPT ![i + 1] = s[j + 1], ![j + 1] = s[i + 1]]

Min2(a, b) == IF a < b THEN a ELSE b

Max2(a, b) == IF a > b THEN a ELSE b

Abs(a) == IF a < 0 THEN -a ELSE a

\* Go integer division truncates toward zero (b # 0)
GoDiv(a, b) ==
  IF (a >= 0) = (b > 0) THEN Abs(a) \div Abs(b) ELSE -(Abs(a) \div Abs(b))

\* arithmetic in int8 wraps around
WrapInt8(v) == ((v + 128) % 256) - 128

\* -------------------------------------------------------- uint32 as bit sets
Pow2(k) == IF k = 0 THEN 1 ELSE 2 ^ k

\* a natural number below 2^31 as a uint32
ToU32(v) == {i \in 0..30 : (v \div Pow2(i)) % 2 = 1}

BitAnd(a, b) == a \cap b

BitOr(a, b) == a \cup b

BitXor(a, b) == (a \ b) \cup (b \ a)

Shl(a, k) == {i + k : i \in {c \in a : c + k <= 31}}

Shr(a, k) == {i - k : i \in {c \in a : c >= k}}

\* a < b on uint32: the highest differing bit is set in b
U32Less(a, b) ==
  LET d == BitXor(a, b)
  IN  d # {} /\ (CHOOSE m \in d : \A o \in d : o <= m) \in b

Mask16 == 0..15
Mask00FF00FF == {i \in 0..31 : (i \div 8) % 2 = 0}
Mask0F0F0F0F == {i \in 0..31 : (i \div 4) % 2 = 0}
Mask33333333 == {i \in 0..31 : (i \div 2) % 2 = 0}
Mask55555555 == {i \in 0..31 : i % 2 = 0}

\* interleave without its last spreading step
interleaveShort(x0) ==
  LET x1 == BitAnd(BitOr(x0, Shl(x0, 8)), Mask00FF00FF)
      x2 == BitAnd(BitOr(x1, Shl(x1, 4)), Mask0F0F0F0F)
  IN  BitAnd(BitOr(x2, Shl(x2, 2)), Mask33333333)

interleave(x0) ==
  LET x1 == BitAnd(BitOr(x0, Shl(x0, 8)), Mask00FF00FF)
      x2 == BitAnd(BitOr(x1, Shl(x1, 4)), Mask0F0F0F0F)
      x3 == BitAnd(BitOr(x2, Shl(x2, 2)), Mask33333333)
  IN  BitAnd(BitOr(x3, Shl(x3, 1)), Mask55555555)

\* one of the two middle prefix-scan rounds, with shift s
HilbertRound(r, s) ==
  LET a == r.A
      b == r.B
      c == r.C
      d == r.D
  IN  [A |-> BitXor(BitAnd(a, Shr(a, s)), BitAnd(b, Shr(b, s))),
       B |-> BitXor(BitAnd(a, Shr(b, s)), BitAnd(b, Shr(BitXor(a, b), s))),
       C |-> BitXor(c, BitXor(BitAnd(a, Shr(c, s)), BitAnd(b, Shr(d, s)))),
       D |-> BitXor(d, BitXor(BitAnd(b, Shr(c, s)),
                              BitAnd(BitXor(a, b), Shr(d, s))))]

hilbertXYToIndex(n, xin, yin) ==
  LET x == Shl(xin, 16 - n)
      y == Shl(yin, 16 - n)
      a0 == BitXor(x, y)
      b0 == BitXor(Mask16, a0)
      c0 == BitXor(Mask16, BitOr(x, y))
      d0 == BitAnd(x, BitXor(y, Mask16))
      r1 == [A |-> BitOr(a0, Shr(b0, 1)),
             B |-> BitXor(Shr(a0, 1), a0),
             C |-> BitXor(BitXor(Shr(c0, 1), BitAnd(b0, Shr(d0, 1))), c0),
             D |-> BitXor(BitXor(BitAnd(a0, Shr(c0, 1)), Shr(d0, 1)), d0)]
      r2 == HilbertRound(r1, 2)
      r3 == HilbertRound(r2, 4)
      r4 == HilbertRound(r3, 8)
      a == BitXor(r4.C, Shr(r4.C, 1))
      b == BitXor(r4.D, Shr(r4.D, 1))
      i0 == BitXor(x, y)
      i1 == BitOr(b, BitXor(Mask16, BitOr(i0, a)))
  IN  Shr(BitOr(Shl(interleave(i1), 1), interleave(i0)), 32 - 2 * n)

\* ------------------------------------------------------------------ boxes
Box(minX, minY, maxX, maxY, index) ==
  [MinX |-> minX, MinY |-> minY, MaxX |-> maxX, MaxY |-> maxY, Index |-> index]

\* InvertedBox[int8]: MinMaxValueOfType gives min = MinInt8, max = MaxInt8
InvertedBox == Box(MaxInt8, MaxInt8, MinInt8, MinInt8, -1)

\* UnionInto that never raises the maxima
UnionIntoMinOnly(a, b) ==
  [a EXCEPT !.MinX = Min2(a.MinX, b.MinX), !.MinY = Min2(a.MinY, b.MinY)]

\* the box a with b folded in by componentwise min/max; the index stays a's
UnionInto(a, b) ==
  [a EXCEPT !.MinX = Min2(a.MinX, b.MinX), !.MinY = Min2(a.MinY, b.MinY),
            !.MaxX = Max2(a.MaxX, b.MaxX), !.MaxY = Max2(a.MaxY, b.MaxY)]

\* Rejected without its first comparison
RejectedNoMaxX(q, b) ==
  q.MaxY < b.MinY \/ q.MinX > b.MaxX \/ q.MinY > b.MaxY

\* the rejection test of searchInTree: TRUE when box b is skipped for query q
Rejected(q, b) ==
  q.MaxX < b.MinX \/ q.MaxY < b.MinY \/ q.MinX > b.MaxX \/ q.MinY > b.MaxY

PositiveUnion(a, b) ==
  b.MaxX >= a.MinX /\ b.MinX <= a.MaxX /\ b.MaxY >= a.MinY /\ b.MinY <= a.MaxY

\* ------------------------------------------- Hilbert coordinate of a centre
\* How the build converts a float64 that uint32 cannot represent (negative,
\* infinite, NaN): the Go specification leaves the result to the
\* implementation.  "truncate64" converts through int64 and keeps the low 32
\* bits (amd64); "saturate" clamps to the range of uint32 (arm64).
FloatConversions == {"truncate64", "saturate"}

AllOnes == 0..31

\* HilbertCoord that rounds a representable value to the nearest integer
HilbertCoordRounded(lo, hi, bmin, width, fc) ==
  LET num == (lo + hi) - 2 * bmin
      t == GoDiv(65535 * num, 2 * width)
  IN  IF width = 0
      THEN IF fc = "saturate" /\ num > 0 THEN AllOnes ELSE {}
      ELSE IF t >= 0
      THEN ToU32((2 * 65535 * Abs(num) + 2 * Abs(width)) \div (4 * Abs(width)))
      ELSE IF fc = "saturate" THEN {} ELSE AllOnes \ ToU32((-t) - 1)

\* uint32(hilbertMax * (((float64(lo)+float64(hi))/2 - float64(bmin)) / width))
\* with width = float64 of an int8.  The float64 value is 65535*num/den for
\* num = lo + hi - 2*bmin and den = 2*width; on every int8 input its
\* truncation equals the truncation of the exact quotient.
HilbertCoord(lo, hi, bmin, width, fc) ==
  LET num == (lo + hi) - 2 * bmin
      t == GoDiv(65535 * num, 2 * width)
  IN  IF width = 0
      THEN \* +Inf, -Inf or NaN
           IF fc = "saturate" /\ num > 0 THEN AllOnes ELSE {}
      ELSE IF t >= 0 THEN ToU32(t)
      ELSE \* at most -1: not representable
           IF fc = "saturate" THEN {} ELSE AllOnes \ ToU32((-t) - 1)

\* TRUE when the float64 handed to uint32() is infinite, NaN or at most -1
Unrepresentable(lo, hi, bmin, width) ==
  width = 0 \/ GoDiv(65535 * ((lo + hi) - 2 * bmin), 2 * width) < 0

\* ------------------------------------------------- dual-key partition sort
\* ScanUp that also steps over ranks equal to the pivot
RECURSIVE ScanUpOverEqual(_, _, _)
ScanUpOverEqual(values, i, pivot) ==
  IF InRange(values, i) /\ ~U32Less(pivot, At(values, i))
  THEN ScanUpOverEqual(values, i + 1, pivot)
  ELSE i

\* for values[i] < pivot { i++ }, started at i; a read outside the slice
\* stops the scan there
RECURSIVE ScanUp(_, _, _)
ScanUp(values, i, pivot) ==
  IF InRange(values, i) /\ U32Less(At(values, i), pivot)
  THEN ScanUp(values, i + 1, pivot)
  ELSE i

\* for values[j] > pivot { j-- }, started at j
RECURSIVE ScanDown(_, _, _)
ScanDown(values, j, pivot) ==
  IF InRange(values, j) /\ U32Less(pivot, At(values, j))
  THEN ScanDown(values, j - 1, pivot)
  ELSE j

\* PartitionLoop that swaps the ranks and leaves the boxes where they are
RECURSIVE PartitionLoopValuesOnly(_, _, _, _, _)
PartitionLoopValuesOnly(values, bxs, i, j, pivot) ==
  LET i1 == ScanUp(values, i + 1, pivot)
      j1 == ScanDown(values, j - 1, pivot)
  IN  IF ~InRange(values, i1) \/ ~InRange(values, j1)
      THEN [values |-> values, boxes |-> bxs, i |-> i1, j |-> j1,
            fault |-> "index out of range"]
      ELSE IF i1 >= j1
      THEN [values |-> values, boxes |-> bxs, i |-> i1, j |-> j1,
            fault |-> "none"]
      ELSE PartitionLoopValuesOnly(Swap(values, i1, j1), bxs, i1, j1, pivot)

\* the partition loop from the state (i, j); the result carries the final i
\* and j, the last positions the two scans read
RECURSIVE PartitionLoop(_, _, _, _, _)
PartitionLoop(values, bxs, i, j, pivot) ==
  LET i1 == ScanUp(values, i + 1, pivot)
      j1 == ScanDown(values, j - 1, pivot)
  IN  IF ~InRange(values, i1) \/ ~InRange(values, j1)
      THEN [values |-> values, boxes |-> bxs, i |-> i1, j |-> j1,
            fault |-> "index out of range"]
      ELSE IF i1 >= j1
      THEN [values |-> values, boxes |-> bxs, i |-> i1, j |-> j1,
            fault |-> "none"]
      ELSE PartitionLoop(Swap(values, i1, j1), Swap(bxs, i1, j1), i1, j1, pivot)

\* partitions lists, for every call that partitioned, its range and the final
\* i and j of its loop, in call order.  A call that hands one of its
\* recursive calls a range no smaller than its own recurses for ever.
RECURSIVE sortValuesAndBoxes(_, _, _, _)
sortValuesAndBoxes(values, bxs, left, right) ==
  IF left >= right
  THEN [values |-> values, boxes |-> bxs, fault |-> "none", partitions |-> <<>>]
  ELSE LET pivot == At(values, (left + right) \div 2)
           p == PartitionLoop(values, bxs, left - 1, right + 1, pivot)
           here == <<[left |-> left, right |-> right, i |-> p.i, j |-> p.j]>>
       IN  IF p.fault # "none"
           THEN [values |-> p.values, boxes |-> p.boxes, fault |-> p.fault,
                 partitions |-> here]
           ELSE IF p.j >= right \/ p.j + 1 <= left
           THEN [values |-> p.values, boxes |-> p.boxes,
                 fault |-> "stack overflow", partitions |-> here]
           ELSE LET s1 == sortValuesAndBoxes(p.values, p.boxes, left, p.j)
                IN  IF s1.fault # "none"
                    THEN [s1 EXCEPT !.partitions = here \o @]
                    ELSE LET s2 == sortValuesAndBoxes(s1.values, s1.boxes,
                                                      p.j + 1, right)
                         IN  [s2 EXCEPT !.partitions = here \o s1.partitions \o @]

\* ------------------------------------------------------- finishIndexBuild
\* ClampNodeSize with the threshold off by one
ClampNodeSizeOffByOne(nodeSize) == IF nodeSize < 1 THEN 1 ELSE nodeSize

\* if nodeSize < 2 { nodeSize = 2 }
ClampNodeSize(nodeSize) == IF nodeSize < MinNodeSize THEN MinNodeSize ELSE nodeSize

\* for { n = (n + nodeSize - 1) / nodeSize; numNodes += n;
\*       levelBounds = append(levelBounds, numNodes); if n <= 1 { break } }
\* A zero nodeSize divides by zero; a count that does not shrink repeats the
\* same iteration for ever.
RECURSIVE LevelLoop(_, _, _, _)
LevelLoop(n, numNodes, lb, nodeSize) ==
  IF nodeSize = 0
  THEN [levelBounds |-> lb, fault |-> "integer divide by zero"]
  ELSE LET n1 == GoDiv(n + nodeSize - 1, nodeSize)
           lb1 == Append(lb, numNodes + n1)
       IN  IF n1 <= 1 THEN [levelBounds |-> lb1, fault |-> "none"]
           ELSE IF n1 >= n THEN [levelBounds |-> lb1, fault |-> "hang"]
           ELSE LevelLoop(n1, numNodes + n1, lb1, nodeSize)

\* ComputeLevelBounds that records no level for an empty index
ComputeLevelBoundsSkipEmpty(numItems, nodeSize) ==
  IF numItems = 0
  THEN [levelBounds |-> <<>>, fault |-> "none"]
  ELSE LevelLoop(numItems, numItems, <<numItems>>, nodeSize)

\* ComputeLevelBounds that starts the running node count at zero
ComputeLevelBoundsFromZero(numItems, nodeSize) ==
  LevelLoop(numItems, 0, <<numItems>>, nodeSize)

\* levelBounds := []int{n} followed by the loop
ComputeLevelBounds(numItems, nodeSize) ==
  LevelLoop(numItems, numItems, <<numItems>>, nodeSize)

\* width := float64(bounds.MaxX - bounds.MinX): the difference is taken in T
BoundsWidth(bounds) == WrapInt8(bounds.MaxX - bounds.MinX)

BoundsHeight(bounds) == WrapInt8(bounds.MaxY - bounds.MinY)

\* the Hilbert rank of box b
HilbertValue(b, bounds, fc) ==
  hilbertXYToIndex(HilbertOrder,
    HilbertCoord(b.MinX, b.MaxX, bounds.MinX, BoundsWidth(bounds), fc),
    HilbertCoord(b.MinY, b.MaxY, bounds.MinY, BoundsHeight(bounds), fc))

\* TRUE when the ranks of these boxes depend on the build's conversion
ConversionObserved(bxs, bounds) ==
  \E i \in 1..Len(bxs) :
    \/ Unrepresentable(bxs[i].MinX, bxs[i].MaxX, bounds.MinX, BoundsWidth(bounds))
    \/ Unrepresentable(bxs[i].MinY, bxs[i].MaxY, bounds.MinY, BoundsHeight(bounds))

\* FoldWindow that folds only the first box of the window into the parent
FoldWindowFirstOnly(bxs, nodeBox, pos, end, j, nodeSize) ==
  IF j < nodeSize /\ pos < end
  THEN [nodeBox |-> UnionInto(nodeBox, At(bxs, pos)),
        pos |-> Min2(pos + nodeSize, end)]
  ELSE [nodeBox |-> nodeBox, pos |-> pos]

\* for j := 0; j < nodeSize && pos < end; j++ { fold boxes[pos]; pos++ }
RECURSIVE FoldWindow(_, _, _, _, _, _)
FoldWindow(bxs, nodeBox, pos, end, j, nodeSize) ==
  IF j < nodeSize /\ pos < end
  THEN FoldWindow(bxs, UnionInto(nodeBox, At(bxs, pos)), pos + 1, end, j + 1,
                  nodeSize)
  ELSE [nodeBox |-> nodeBox, pos |-> pos]

\* for pos < end { one parent per window, appended to boxes }; a window that
\* consumes nothing (nodeSize <= 0) appends parents for ever
RECURSIVE PackLevel(_, _, _, _)
PackLevel(bxs, pos, end, nodeSize) ==
  IF pos < end
  THEN LET w == FoldWindow(bxs, [InvertedBox EXCEPT !.Index = pos], pos, end, 0,
                           nodeSize)
       IN  IF w.pos = pos
           THEN [boxes |-> bxs, pos |-> pos, fault |-> "hang"]
           ELSE PackLevel(Append(bxs, w.nodeBox), w.pos, end, nodeSize)
  ELSE [boxes |-> bxs, pos |-> pos, fault |-> "none"]

\* for i := 0; i < len(levelBounds)-1; i++ { end := levelBounds[i]; ... }
RECURSIVE PackLevels(_, _, _, _, _)
PackLevels(bxs, pos, i, lb, nodeSize) ==
  IF i < Len(lb) - 1
  THEN LET l == PackLevel(bxs, pos, At(lb, i), nodeSize)
       IN  IF l.fault # "none" THEN l
           ELSE PackLevels(l.boxes, l.pos, i + 1, lb, nodeSize)
  ELSE [boxes |-> bxs, pos |-> pos, fault |-> "none"]

finishIndexBuild(nodeSize0, bxs, bounds, fc) ==
  LET nodeSize == ClampNodeSize(nodeSize0)
      numItems0 == Len(bxs)
      lv == ComputeLevelBounds(numItems0, nodeSize)
      hv == [i \in 1..Len(bxs) |-> HilbertValue(bxs[i], bounds, fc)]
      sorted == IF Len(bxs) # 0
                THEN sortValuesAndBoxes(hv, bxs, 0, Len(bxs) - 1)
                ELSE [values |-> hv, boxes |-> bxs, fault |-> "none",
                      partitions |-> <<>>]
  IN  IF lv.fault # "none"
      THEN [nodeSize |-> nodeSize, levelBounds |-> lv.levelBounds,
            hilbertValues |-> <<>>, boxes |-> bxs, fault |-> lv.fault]
      ELSE IF sorted.fault # "none"
      THEN [nodeSize |-> nodeSize, levelBounds |-> lv.levelBounds,
            hilbertValues |-> sorted.values, boxes |-> sorted.boxes,
            fault |-> sorted.fault]
      ELSE LET packed == PackLevels(sorted.boxes, 0, 0, lv.levelBounds, nodeSize)
           IN  [nodeSize |-> nodeSize, levelBounds |-> lv.levelBounds,
                hilbertValues |-> sorted.values, boxes |-> packed.boxes,
                fault |-> packed.fault]

\* ------------------------------------------------------------ searchInTree
\* Truncate that keeps the stale contents
TruncateNone(results) == results

\* results = results[:0]
Truncate(results) == SubSeq(results, 1, 0)

\* ScanWindow that queues a child window with the level of its parent
RECURSIVE ScanWindowSameLevel(_, _, _, _, _, _, _)
ScanWindowSameLevel(r, pos, end, nodeIndex, level, numItems0, qb) ==
  IF pos >= end THEN r
  ELSE IF ~InRange(qb.boxes, pos)
  THEN [r EXCEPT !.fault = "index out of range"]
  ELSE IF Rejected(qb.q, At(qb.boxes, pos))
  THEN ScanWindowSameLevel(r, pos + 1, end, nodeIndex, level, numItems0, qb)
  ELSE IF nodeIndex < numItems0
  THEN ScanWindowSameLevel(
         [r EXCEPT !.results = Append(@, At(qb.boxes, pos).Index)],
         pos + 1, end, nodeIndex, level, numItems0, qb)
  ELSE ScanWindowSameLevel(
         [r EXCEPT !.queue = Append(@, <<At(qb.boxes, pos).Index, level>>)],
         pos + 1, end, nodeIndex, level, numItems0, qb)

\* for pos := nodeIndex; pos < end; pos++ { ... } for one popped entry; r
\* carries the queue, the results and the fault so far
RECURSIVE ScanWindow(_, _, _, _, _, _, _)
ScanWindow(r, pos, end, nodeIndex, level, numItems0, qb) ==
  IF pos >= end THEN r
  ELSE IF ~InRange(qb.boxes, pos)
  THEN [r EXCEPT !.fault = "index out of range"]
  ELSE IF Rejected(qb.q, At(qb.boxes, pos))
  THEN ScanWindow(r, pos + 1, end, nodeIndex, level, numItems0, qb)
  ELSE IF nodeIndex < numItems0
  THEN ScanWindow([r EXCEPT !.results = Append(@, At(qb.boxes, pos).Index)],
                  pos + 1, end, nodeIndex, level, numItems0, qb)
  ELSE ScanWindow([r EXCEPT !.queue =
                     Append(@, <<At(qb.boxes, pos).Index, level - 1>>)],
                  pos + 1, end, nodeIndex, level, numItems0, qb)

\* WindowEnd one position long
WindowEndLong(nodeIndex, nodeSize, levelBound) ==
  Min2(nodeIndex + nodeSize + 1, levelBound)

\* WindowEnd one position short
WindowEndShort(nodeIndex, nodeSize, levelBound) ==
  Min2(nodeIndex + nodeSize - 1, levelBound)

\* end := min(nodeIndex+nodeSize, levelBounds[level])
WindowEnd(nodeIndex, nodeSize, levelBound) == Min2(nodeIndex + nodeSize, levelBound)

\* for len(queue) != 0 { pop the last (nodeIndex, level); scan its window }
RECURSIVE SearchLoop(_, _, _, _, _)
SearchLoop(r, nodeSize, numItems0, lb, qb) ==
  IF r.fault # "none" \/ Len(r.queue) = 0 THEN r
  ELSE LET e == r.queue[Len(r.queue)]
           nodeIndex == e[1]
           level == e[2]
           popped == [r EXCEPT !.queue = SubSeq(@, 1, Len(@) - 1),
                               !.popped = Append(@, e)]
       IN  IF ~InRange(lb, level)
           THEN [popped EXCEPT !.fault = "index out of range"]
           ELSE SearchLoop(
                  ScanWindow(popped, nodeIndex,
                             WindowEnd(nodeIndex, nodeSize, At(lb, level)),
                             nodeIndex, level, numItems0, qb),
                  nodeSize, numItems0, lb, qb)

\* NotFinished without the test
NotFinishedNever(lb) == FALSE

\* if len(levelBounds) == 0 { return results }: Finish was never called
NotFinished(lb) == Len(lb) = 0

\* EmptyTree without the test
EmptyTreeNever(bxs) == FALSE

\* if len(boxes) == 0 { return results }: the tree is empty
EmptyTree(bxs) == Len(bxs) = 0

\* SearchFrame of a search that marks the first node as visited
SearchFrameMarking(results, bxs, lb) ==
  [results |-> results, queue |-> <<>>, popped |-> <<>>, fault |-> "none",
   boxes |-> IF Len(bxs) = 0 THEN bxs ELSE [bxs EXCEPT ![1].Index = -1],
   levelBounds |-> lb]

\* The record a search works on: results is the slice it returns, queue the
\* work queue, popped the queue entries in the order they were taken, fault
\* the panic raised (if any), and boxes / levelBounds the contents of the two
\* slices of the index, which the callee shares with the caller.
SearchFrame(results, bxs, lb) ==
  [results |-> results, queue |-> <<>>, popped |-> <<>>, fault |-> "none",
   boxes |-> bxs, levelBounds |-> lb]

\* searchInTree seeded with the number of levels as the level of the root
searchInTreeSeedLevel(nodeSize, numItems0, lb, bxs, q, results0) ==
  LET r0 == SearchFrame(Truncate(results0), bxs, lb)
  IN  IF NotFinished(lb) THEN r0
      ELSE IF EmptyTree(bxs) THEN r0
      ELSE SearchLoop([r0 EXCEPT !.queue = <<<<Len(bxs) - 1, Len(lb)>>>>],
                      nodeSize, numItems0, lb, [q |-> q, boxes |-> bxs])

searchInTree(nodeSize, numItems0, lb, bxs, q, results0) ==
  LET r0 == SearchFrame(Truncate(results0), bxs, lb)
  IN  IF NotFinished(lb) THEN r0
      ELSE IF EmptyTree(bxs) THEN r0
      ELSE SearchLoop([r0 EXCEPT !.queue = <<<<Len(bxs) - 1, Len(lb) - 1>>>>],
                      nodeSize, numItems0, lb, [q |-> q, boxes |-> bxs])

\* ------------------------------------------------------- reference runs
\* the boxes and bounds of a fresh index after Add of each box of adds in turn
RECURSIVE AddAll(_)
AddAll(adds) ==
  IF Len(adds) = 0
  THEN [boxes |-> <<>>, bounds |-> InvertedBox]
  ELSE LET prev == AddAll(SubSeq(adds, 1, Len(adds) - 1))
           b == adds[Len(adds)]
       IN  [boxes |-> Append(prev.boxes, [b EXCEPT !.Index = Len(prev.boxes)]),
            bounds |-> UnionInto(prev.bounds, b)]

\* NewFlatbush, NodeSize = nodeSize, Add of each box of adds, Finish
BuildOf(nodeSize, adds, fc) ==
  LET a == AddAll(adds) IN finishIndexBuild(nodeSize, a.boxes, a.bounds, fc)

\* ... followed by Search(q)
SearchOf(nodeSize, adds, fc, q) ==
  LET r == BuildOf(nodeSize, adds, fc)
  IN  searchInTree(r.nodeSize, Len(adds), r.levelBounds, r.boxes, q, <<>>)

\* ------------------------------------------------------------------ inputs
\* The boxes a caller may pass to Add: the three boxes of the concrete
\* scenario, a box wider than int8 can measure, and a malformed box
\* (minX > maxX) of zero height (alone it gives overall bounds of zero height).
ScenarioBoxes ==
  { Box(1, 1, 9, 9, -1), Box(11, 1, 19, 9, -1), Box(1, 11, 9, 19, -1) }

BoxInputs ==
  ScenarioBoxes \cup
  { Box(-100, -100, 100, 100, -1), Box(15, 5, 12, 5, -1) }

\* the boxes of the runs that call the operations in any order
FreeBoxInputs == { Box(1, 1, 9, 9, -1), Box(11, 1, 19, 9, -1) }

\* the query rectangles a caller may pass to Search and SearchFast
QueryInputs ==
  { Box(0, 0, 10, 10, -1), Box(0, 0, 20, 20, -1), Box(20, 20, 30, 30, -1) }

\* the queries of the runs that call the operations in any order
FreeQueryInputs == { Box(0, 0, 10, 10, -1), Box(0, 0, 20, 20, -1) }

\* the values a caller may store in the public field NodeSize
NodeSizeInputs == {-1, 0, 1, 2}

\* the sizes a caller may pass to Reserve
ReserveInputs == {-1, 3}

\* stale contents of a caller-owned result buffer
StaleBuffer == <<7, 7, 7, 7, 7, 7>>

\* ------------------------------------------------------------------- state
VARIABLES
  NodeSize,       \* Flatbush.NodeSize
  boxes,          \* Flatbush.boxes: the flat node array
  boxesCap,       \* cap(Flatbush.boxes) as set by Reserve (0: never reserved)
  bounds,         \* Flatbush.bounds: the running union of the added boxes
  hilbertValues,  \* Flatbush.hilbertValues
  levelBounds,    \* Flatbush.levelBounds
  numItems,       \* Flatbush.numItems
  fconv,          \* the build's float64 -> uint32 conversion of
                  \* unrepresentable values, "unobserved" until a Finish
                  \* depends on it
  fault,          \* "none", or the runtime fault that ended the run
  op,             \* the last public operation called
  arg,            \* its argument (a box, a query, a size; 0 when it has none)
  buf,            \* the buffer contents passed to it, when it is a search
  ret,            \* what it returned (0 when nothing)
  added,          \* history: the boxes passed to Add, in call order
  nFinish,        \* history: the number of Finish calls
  nReserve,       \* history: the number of Reserve calls
  cfgNodeSize,    \* history: NodeSize as the caller configured it
  violations      \* history: the lifecycle violations committed so far

index == <<NodeSize, boxes, boxesCap, bounds, hilbertValues, levelBounds, numItems>>

vars == <<NodeSize, boxes, boxesCap, bounds, hilbertValues, levelBounds,
          numItems, fconv, fault, op, arg, buf, ret, added, nFinish, nReserve,
          cfgNodeSize, violations>>

\* NewFlatbush[int8]()
Init ==
  /\ NodeSize = DefaultNodeSize
  /\ boxes = <<>>
  /\ boxesCap = 0
  /\ bounds = InvertedBox
  /\ hilbertValues = <<>>
  /\ levelBounds = <<>>
  /\ numItems = 0
  /\ fconv = "unobserved"
  /\ fault = "none"
  /\ op = "New"
  /\ arg = 0
  /\ buf = <<>>
  /\ ret = 0
  /\ added = <<>>
  /\ nFinish = 0
  /\ nReserve = 0
  /\ cfgNodeSize = DefaultNodeSize
  /\ violations = {}

\* f.NodeSize = k: the caller configures the fan-out right after construction
SetNodeSize(k) ==
  /\ fault = "none"
  /\ op = "New"
  /\ k # DefaultNodeSize
  /\ NodeSize' = k
  /\ cfgNodeSize' = k
  /\ op' = "SetNodeSize"
  /\ arg' = k
  /\ buf' = <<>>
  /\ ret' = 0
  /\ UNCHANGED <<boxes, boxesCap, bounds, hilbertValues, levelBounds, numItems,
                 fconv, fault, added, nFinish, nReserve, violations>>

\* for n > 1 { n = (n + f.NodeSize - 1) / f.NodeSize; numNodes += n }
\* A zero NodeSize divides by zero; a count that does not shrink repeats the
\* same iteration for ever.
RECURSIVE ReserveLoop(_, _, _)
ReserveLoop(n, numNodes, nodeSize) ==
  IF n > 1
  THEN IF nodeSize = 0
       THEN [numNodes |-> numNodes, fault |-> "integer divide by zero"]
       ELSE LET n1 == GoDiv(n + nodeSize - 1, nodeSize)
            IN  IF n1 >= n
                THEN [numNodes |-> numNodes, fault |-> "hang"]
                ELSE ReserveLoop(n1, numNodes + n1, nodeSize)
  ELSE [numNodes |-> numNodes, fault |-> "none"]

\* the capacity Reserve asks make() for; make panics on a negative capacity
ReserveCount(size, nodeSize) ==
  LET r == ReserveLoop(size, size, nodeSize)
  IN  IF r.fault = "none" /\ r.numNodes < 0
      THEN [r EXCEPT !.fault = "makeslice: cap out of range"]
      ELSE r

\* Flatbush.Reserve(size)
Reserve(size) ==
  /\ fault = "none"
  /\ nReserve < MaxReserve
  /\ \E r \in {ReserveCount(size, NodeSize)} :
         /\ fault' = r.fault
         /\ IF r.fault = "none"
            THEN boxes' = <<>> /\ boxesCap' = r.numNodes
            ELSE UNCHANGED <<boxes, boxesCap>>
  /\ op' = "Reserve"
  /\ arg' = size
  /\ buf' = <<>>
  /\ ret' = 0
  /\ nReserve' = nReserve + 1
  /\ violations' = violations
                     \cup (IF nFinish > 0 THEN {"ReserveAfterFinish"} ELSE {})
                     \cup (IF Len(added) > 0 THEN {"ReserveAfterAdd"} ELSE {})
  /\ UNCHANGED <<NodeSize, bounds, hilbertValues, levelBounds, numItems, fconv,
                 added, nFinish, cfgNodeSize>>

\* Add that puts the coordinates of each axis in order before it stores them
AddOrdered(b) ==
  /\ fault = "none"
  /\ Len(added) < MaxItems
  /\ \E nb \in {Box(Min2(b.MinX, b.MaxX), Min2(b.MinY, b.MaxY),
                     Max2(b.MinX, b.MaxX), Max2(b.MinY, b.MaxY), Len(boxes))} :
       /\ boxes' = Append(boxes, nb)
       /\ ret' = nb.Index
       /\ bounds' = UnionInto(bounds, nb)
  /\ op' = "Add"
  /\ arg' = b
  /\ buf' = <<>>
  /\ added' = Append(added, b)
  /\ violations' = violations
                     \cup (IF nFinish > 0 THEN {"AddAfterFinish"} ELSE {})
  /\ UNCHANGED <<NodeSize, boxesCap, hilbertValues, levelBounds, numItems,
                 fconv, fault, nFinish, nReserve, cfgNodeSize>>

\* Flatbush.Add(minX, minY, maxX, maxY)
Add(b) ==
  /\ fault = "none"
  /\ Len(added) < MaxItems
  /\ LET idx == Len(boxes)
     IN  /\ boxes' = Append(boxes, [b EXCEPT !.Index = idx])
         /\ ret' = idx
  /\ bounds' = UnionInto(bounds, b)
  /\ op' = "Add"
  /\ arg' = b
  /\ buf' = <<>>
  /\ added' = Append(added, b)
  /\ violations' = violations
                     \cup (IF nFinish > 0 THEN {"AddAfterFinish"} ELSE {})
  /\ UNCHANGED <<NodeSize, boxesCap, hilbertValues, levelBounds, numItems,
                 fconv, fault, nFinish, nReserve, cfgNodeSize>>

\* the conversions this Finish may run under: the one an earlier Finish
\* showed, else either one (when every value is representable the two agree
\* and one stands for both)
FinishConversions ==
  IF fconv # "unobserved" THEN {fconv}
  ELSE IF ConversionObserved(boxes, bounds) THEN FloatConversions
  ELSE {"truncate64"}

\* Flatbush.Finish(): f.numItems = len(f.boxes), then finishIndexBuild
Finish ==
  /\ fault = "none"
  /\ nFinish < MaxFinish
  /\ numItems' = Len(boxes)
  /\ \E fc \in FinishConversions :
       \E r \in {finishIndexBuild(NodeSize, boxes, bounds, fc)} :
           /\ fault' = r.fault
           /\ fconv' = IF ConversionObserved(boxes, bounds) THEN fc ELSE fconv
           /\ IF r.fault = "none"
              THEN /\ NodeSize' = r.nodeSize
                   /\ levelBounds' = r.levelBounds
                   /\ hilbertValues' = r.hilbertValues
                   /\ boxes' = r.boxes
              ELSE UNCHANGED <<NodeSize, levelBounds, hilbertValues, boxes>>
  /\ op' = "Finish"
  /\ arg' = 0
  /\ buf' = <<>>
  /\ ret' = 0
  /\ nFinish' = nFinish + 1
  /\ violations' = violations
                     \cup (IF nFinish > 0 THEN {"Refinish"} ELSE {})
  /\ UNCHANGED <<boxesCap, bounds, added, nReserve, cfgNodeSize>>

\* Flatbush.SearchFast(minX, minY, maxX, maxY, results): searchInTree on the
\* fields of the index
SearchFast(q, results) ==
  /\ fault = "none"
  /\ \E r \in {searchInTree(NodeSize, numItems, levelBounds, boxes, q,
                           results)} :
         /\ fault' = r.fault
         /\ ret' = IF r.fault = "none" THEN r.results ELSE <<>>
         /\ boxes' = r.boxes
         /\ levelBounds' = r.levelBounds
  /\ op' = "SearchFast"
  /\ arg' = q
  /\ buf' = results
  /\ UNCHANGED <<NodeSize, boxesCap, bounds, hilbertValues, numItems, fconv,
                 added, nFinish, nReserve, cfgNodeSize, violations>>

\* Flatbush.Search(minX, minY, maxX, maxY): results := []int{}, then
\* SearchFast
Search(q) ==
  /\ fault = "none"
  /\ \E r \in {searchInTree(NodeSize, numItems, levelBounds, boxes, q, <<>>)} :
         /\ fault' = r.fault
         /\ ret' = IF r.fault = "none" THEN r.results ELSE <<>>
         /\ boxes' = r.boxes
         /\ levelBounds' = r.levelBounds
  /\ op' = "Search"
  /\ arg' = q
  /\ buf' = <<>>
  /\ UNCHANGED <<NodeSize, boxesCap, bounds, hilbertValues, numItems, fconv,
                 added, nFinish, nReserve, cfgNodeSize, violations>>

\* the buffers a caller hands to SearchFast for query q: a stale one, or the
\* slice the previous search returned when it asked the same query
BufferInputs(q) ==
  {StaleBuffer}
    \cup (IF op \in {"Search", "SearchFast"} /\ arg = q THEN {ret} ELSE {})

\* the operations in any order, on the small inputs
Next ==
  \/ \E k \in NodeSizeInputs : SetNodeSize(k)
  \/ \E size \in ReserveInputs : Reserve(size)
  \/ \E b \in FreeBoxInputs : Add(b)
  \/ Finish
  \/ \E q \in FreeQueryInputs : Search(q)
  \/ \E q \in FreeQueryInputs : \E results \in BufferInputs(q) :
       SearchFast(q, results)

Spec == Init /\ [][Next]_vars

\* the documented protocol: configure, reserve, add every box, finish once,
\* then search
NextProtocol ==
  \/ \E k \in NodeSizeInputs : SetNodeSize(k)
  \/ \E size \in ReserveInputs :
       nFinish = 0 /\ Len(added) = 0 /\ Reserve(size)
  \/ \E b \in BoxInputs : nFinish = 0 /\ Add(b)
  \/ nFinish = 0 /\ Finish
  \/ \E q \in QueryInputs : nFinish = 1 /\ Search(q)
  \/ \E q \in QueryInputs : \E results \in BufferInputs(q) :
       nFinish = 1 /\ SearchFast(q, results)

SpecProtocol == Init /\ [][NextProtocol]_vars

\* a build with a reservation: configure, reserve any size from 0 up, add
\* every box, finish once
NextBuild ==
  \/ \E k \in NodeSizeInputs \cup {3} : SetNodeSize(k)
  \/ \E size \in 0..MaxReserveSize :
       nFinish = 0 /\ Len(added) = 0 /\ Reserve(size)
  \/ \E b \in FreeBoxInputs : nFinish = 0 /\ Add(b)
  \/ nFinish = 0 /\ Finish

SpecBuild == Init /\ [][NextBuild]_vars

\* ------------------------------------------- the two functions on their own
\* the ranks handed to the sort: zero, a small one, two with the top bit set
RankInputs == {ToU32(0), ToU32(7), {31}, {0, 31}}

\* the boxes that go with values: the box at position p is marked p
MarkedBoxes(values) == [p \in 1..Len(values) |-> Box(p, p, p, p, p - 1)]

\* sortValuesAndBoxes(values, boxes, 0, len(values)-1) on slices of its own
SortCall(values) ==
  /\ fault = "none"
  /\ op = "New"
  /\ \E r \in {sortValuesAndBoxes(values, MarkedBoxes(values), 0,
                                   Len(values) - 1)} :
       /\ fault' = r.fault
       /\ ret' = [values |-> r.values, boxes |-> r.boxes,
                  partitions |-> r.partitions]
  /\ op' = "sortValuesAndBoxes"
  /\ arg' = [values |-> values, boxes |-> MarkedBoxes(values)]
  /\ buf' = <<>>
  /\ UNCHANGED <<index, fconv, added, nFinish, nReserve, cfgNodeSize,
                 violations>>

\* coordinates of the order-16 grid: its corners, its centre and neighbours
CornerCoords == {0, 1, 32767, 32768, 65534, 65535}

\* the coordinates handed to hilbertXYToIndex of order n: the whole grid of a
\* small order, the corner coordinates of order 16
GridCoords(n) == IF n = HilbertOrder THEN CornerCoords ELSE 0..(Pow2(n) - 1)

\* hilbertXYToIndex(n, x, y)
HilbertCall(n, x, y) ==
  /\ fault = "none"
  /\ op = "New"
  /\ op' = "hilbertXYToIndex"
  /\ arg' = <<n, x, y>>
  /\ ret' = hilbertXYToIndex(n, ToU32(x), ToU32(y))
  /\ buf' = <<>>
  /\ UNCHANGED <<index, fconv, fault, added, nFinish, nReserve, cfgNodeSize,
                 violations>>

\* one call of either function on a fresh program
NextFunctions ==
  \/ \E n \in 0..MaxSortLen : \E values \in [1..n -> RankInputs] :
       SortCall(values)
  \/ \E n \in (1..MaxGridOrder) \cup {HilbertOrder} :
       \E x \in GridCoords(n) : \E y \in GridCoords(n) : HilbertCall(n, x, y)

SpecFunctions == Init /\ [][NextFunctions]_vars

\* ------------------------------------------------------------------ claims
IsSearch == op \in {"Search", "SearchFast"}

Range(s) == {s[i] : i \in 1..Len(s)}

\* the conversion a reference build uses: the observed one, or either
RefConv == IF fconv = "unobserved" THEN "saturate" ELSE fconv

\* Add* then exactly one Finish, and no fault
CleanBuild == nFinish = 1 /\ violations = {} /\ fault = "none"

\* C1: no false negatives.  After Add* and one Finish, every insertion index
\* whose box overlaps the query is in the result of Search.
NoFalseNegatives ==
  (IsSearch /\ CleanBuild) =>
    \A i \in 0..(Len(added) - 1) :
      PositiveUnion(At(added, i), arg) => i \in Range(ret)

\* a search of a three-level tree over three boxes that returns some of them
NoFalseNegativesWitness ==
  /\ IsSearch /\ CleanBuild
  /\ Len(added) = 3 /\ Len(levelBounds) = 3
  /\ Len(ret) \in 1..2
  /\ \A i \in 0..2 : PositiveUnion(At(added, i), arg) => i \in Range(ret)

\* C2: no false positives.  After Add* and one Finish, every value Search
\* returns is an insertion index in 0..n-1 whose box overlaps the query.
NoFalsePositives ==
  (IsSearch /\ CleanBuild) =>
    \A k \in 1..Len(ret) :
      /\ ret[k] \in 0..(Len(added) - 1)
      /\ PositiveUnion(At(added, ret[k]), arg)

\* a search that returns a box and leaves out one that does not overlap
NoFalsePositivesWitness ==
  /\ IsSearch /\ CleanBuild
  /\ ret # <<>>
  /\ \E i \in 0..(Len(added) - 1) :
       ~PositiveUnion(At(added, i), arg) /\ i \notin Range(ret)

\* C3: in the Building phase each Add returns the number of earlier Add calls
\* (0, 1, 2, ...: dense, zero-based, in insertion order) and the appended box
\* stores that value as its index.
AddReturnsInsertionIndex ==
  (op = "Add" /\ nFinish = 0) =>
    /\ ret = Len(added) - 1
    /\ At(boxes, Len(boxes) - 1).Index = ret

\* C4: no public operation raises a runtime fault, in any order of calls and
\* with any NodeSize.
NoRuntimeFault == fault = "none"

\* C5: Reserve has no observable effect.  Whatever Reserve calls a run makes
\* before Finish, each Add returns what it returns in the run without them
\* (the number of earlier Add calls), and each Search after the one Finish
\* returns the result set of the run without them.
ReserveIsPureHint ==
  /\ (op = "Add" /\ nFinish = 0) => ret = Len(added) - 1
  /\ (IsSearch /\ nFinish = 1 /\ fault = "none"
        /\ violations \subseteq {"ReserveAfterAdd"}) =>
       Range(ret) = Range(SearchOf(cfgNodeSize, added, RefConv, arg).results)

\* C6: pre-finish law.  While Finish has never been called, Search and
\* SearchFast return the empty sequence and raise no fault, whatever has been
\* added.
PreFinishLaw ==
  (IsSearch /\ nFinish = 0) => (ret = <<>> /\ fault = "none")

\* a search before Finish on an index that holds boxes, with a stale buffer
PreFinishLawWitness ==
  /\ op = "SearchFast" /\ nFinish = 0
  /\ Len(boxes) >= 2
  /\ buf = StaleBuffer
  /\ ret = <<>>

\* C7: empty-tree law.  Finish on an index with no added box succeeds, and
\* every search afterwards returns the empty sequence without a fault.
EmptyTreeLaw ==
  /\ (op = "Finish" /\ Len(added) = 0) => (fault = "none" /\ levelBounds # <<>>)
  /\ (IsSearch /\ nFinish >= 1 /\ Len(added) = 0) =>
       (ret = <<>> /\ fault = "none")

\* a search of a finished index that never received a box
EmptyTreeLawWitness ==
  /\ IsSearch /\ nFinish = 1 /\ Len(added) = 0
  /\ levelBounds = <<0, 0>> /\ boxes = <<>>
  /\ ret = <<>>

\* C8: buffer reuse.  SearchFast returns what Search returns for the same
\* query whatever the buffer held before, and a second SearchFast with the
\* returned buffer and the same query returns the same content.
BufferReuse ==
  (op = "SearchFast" /\ fault = "none") =>
    /\ ret = searchInTree(NodeSize, numItems, levelBounds, boxes, arg, <<>>).results
    /\ buf # StaleBuffer => ret = buf

\* a SearchFast that was handed the non-empty slice an earlier search of the
\* same query returned
BufferReuseWitness ==
  /\ op = "SearchFast" /\ fault = "none"
  /\ buf = ret
  /\ Len(ret) >= 2

\* C9: a NodeSize below 2 is clamped to 2 at Finish.  After Finish the stored
\* NodeSize is max(NodeSize, 2); when the configured value was below 2 the
\* node array, level bounds and Hilbert ranks are those of a build with
\* NodeSize = 2, and so is every search result.
NodeSizeClamped ==
  nFinish >= 1 =>
    /\ fault = "none"
    /\ NodeSize = Max2(cfgNodeSize, 2)
    /\ cfgNodeSize < 2 =>
         LET r == BuildOf(2, added, RefConv)
         IN  /\ levelBounds = r.levelBounds
             /\ boxes = r.boxes
             /\ hilbertValues = r.hilbertValues
             /\ IsSearch =>
                  ret = searchInTree(2, Len(added), r.levelBounds, r.boxes,
                                     arg, <<>>).results

\* a search of a three-level tree built with a configured NodeSize below 2
NodeSizeClampedWitness ==
  /\ IsSearch /\ nFinish = 1
  /\ cfgNodeSize < 2 /\ NodeSize = 2
  /\ Len(added) = 3 /\ levelBounds = <<3, 5, 6>>
  /\ ret # <<>>

\* C10: Search and SearchFast are read-only: a search step leaves NodeSize,
\* the node array, the bounds, the Hilbert ranks, the level bounds and
\* numItems as they were.
SearchIsReadOnly == [][IsSearch' => index' = index]_vars

\* a search of a finished tree that returned a box
SearchIsReadOnlyWitness ==
  /\ IsSearch /\ nFinish >= 1 /\ fault = "none"
  /\ Len(boxes) >= 3
  /\ ret # <<>>

\* C11: the Building -> Finalized transition is one-way.  levelBounds is empty
\* in every state before the first Finish and non-empty in every state after
\* it, whatever operations follow.
OneWayTransition == (nFinish = 0) <=> (levelBounds = <<>>)

\* a Reserve and an Add after Finish, and the level bounds are still there
OneWayTransitionWitness ==
  /\ nFinish >= 1 /\ fault = "none"
  /\ violations = {"ReserveAfterFinish", "AddAfterFinish"}
  /\ op = "Add"
  /\ levelBounds # <<>>

\* C12: determinism.  A second instance given the same Add calls and the same
\* NodeSize and finalized once returns, for the same query, the same result
\* set as this one, whichever way its build converts unrepresentable floats;
\* with the same conversion it returns the same sequence.
Determinism ==
  (op = "Search" /\ CleanBuild) =>
    \A fc \in FloatConversions :
      \E r \in {SearchOf(cfgNodeSize, added, fc, arg).results} :
        /\ Range(ret) = Range(r)
        /\ fc = RefConv => ret = r

\* a search that returns two boxes of an index whose node array depends on
\* the conversion of the build
DeterminismWitness ==
  /\ op = "Search" /\ CleanBuild
  /\ fconv # "unobserved"
  /\ Len(ret) >= 2
  /\ BuildOf(cfgNodeSize, added, "truncate64").boxes
       # BuildOf(cfgNodeSize, added, "saturate").boxes

\* ceil(a / k) for a >= 0 and k >= 1
CeilDiv(a, k) == (a + k - 1) \div k

\* the number of nodes of the level that ends at lb[i] (level i - 1 of the tree)
LevelCount(lb, i) == IF i = 1 THEN lb[1] ELSE lb[i] - lb[i - 1]

\* C13: the level bounds after Finish on n >= 1 boxes with fan-out k.  The
\* first entry is n, each next entry adds ceil(c / k) for the node count c of
\* the level below, the entries increase strictly, only the top level has a
\* single parent node, and the last entry is the length of the node array.
LevelBoundsStructure ==
  (CleanBuild /\ Len(added) >= 1) =>
    LET lb == levelBounds
        top == Len(levelBounds)
    IN  /\ top >= 2
        /\ lb[1] = Len(added)
        /\ \A i \in 1..(top - 1) :
             /\ lb[i + 1] = lb[i] + CeilDiv(LevelCount(lb, i), NodeSize)
             /\ lb[i] < lb[i + 1]
             /\ i >= 2 => LevelCount(lb, i) > 1
        /\ LevelCount(lb, top) = 1
        /\ lb[top] = Len(boxes)

\* Finish of three boxes with fan-out 2: three leaves, two parents, the root
LevelBoundsStructureWitness ==
  /\ op = "Finish" /\ CleanBuild
  /\ Len(added) = 3 /\ NodeSize = 2
  /\ levelBounds = <<3, 5, 6>>
  /\ Len(boxes) = 6

SetMin(S) == CHOOSE m \in S : \A o \in S : m <= o

SetMax(S) == CHOOSE m \in S : \A o \in S : m >= o

\* the first array position of the level that ends at lb[i]
LevelStart(lb, i) == IF i = 1 THEN 0 ELSE lb[i - 1]

\* C14: after Finish every internal node is the union of its child window.
\* The parent at position p of a level has in its index field the position c
\* of its first child; the windows of consecutive parents start nodeSize
\* apart from the start of the level below and the last one ends where that
\* level ends (no gap, no overlap, only the last may be short); the parent's
\* box is the componentwise min / max of the boxes at [c, min(c + nodeSize,
\* end of the level below)).
ParentIsUnionOfWindow ==
  CleanBuild =>
    \A i \in 2..Len(levelBounds) :
      \A p \in levelBounds[i - 1]..(levelBounds[i] - 1) :
        LET below == levelBounds[i - 1]
            c == LevelStart(levelBounds, i - 1) + (p - below) * NodeSize
            e == Min2(c + NodeSize, below)
            kids == {At(boxes, x) : x \in c..(e - 1)}
            node == At(boxes, p)
        IN  /\ node.Index = c
            /\ c < below
            /\ p = levelBounds[i] - 1 => e = below
            /\ node.MinX = SetMin({b.MinX : b \in kids})
            /\ node.MinY = SetMin({b.MinY : b \in kids})
            /\ node.MaxX = SetMax({b.MaxX : b \in kids})
            /\ node.MaxY = SetMax({b.MaxY : b \in kids})

\* three leaves under fan-out 2: the first parent is larger than each of its
\* two children, the second parent has a short window of one child
ParentIsUnionOfWindowWitness ==
  /\ op = "Finish" /\ CleanBuild
  /\ NodeSize = 2 /\ levelBounds = <<3, 5, 6>>
  /\ \A x \in 0..1 :
       <<At(boxes, 3).MinX, At(boxes, 3).MinY, At(boxes, 3).MaxX, At(boxes, 3).MaxY>>
         # <<At(boxes, x).MinX, At(boxes, x).MinY, At(boxes, x).MaxX, At(boxes, x).MaxY>>
  /\ At(boxes, 4).Index = 2
  /\ At(boxes, 5).Index = 3

\* C15: after Finish on n added boxes the first n entries of the node array
\* are a permutation of the added boxes.  Every leaf carries the coordinates
\* passed to the Add that returned its index field, and the index fields of
\* the leaves are exactly 0..n-1, each once.
LeavesArePermutation ==
  CleanBuild =>
    LET n == Len(added)
    IN  /\ Len(boxes) >= n
        /\ {At(boxes, p).Index : p \in 0..(n - 1)} = 0..(n - 1)
        /\ \A p \in 0..(n - 1) :
             LET k == At(boxes, p).Index
             IN  k \in 0..(n - 1)
                   /\ At(boxes, p) = [At(added, k) EXCEPT !.Index = k]

\* three different boxes whose Hilbert order is not their insertion order
LeavesArePermutationWitness ==
  /\ op = "Finish" /\ CleanBuild
  /\ Len(added) = 3
  /\ Cardinality(Range(added)) = 3
  /\ At(boxes, 0).Index # 0
  /\ At(boxes, 2).Index # 2

\* the low 31 bits of a uint32 as a number
RECURSIVE LowValue(_)
LowValue(a) ==
  IF a \ {31} = {} THEN 0
  ELSE LET m == CHOOSE m \in a \ {31} : TRUE
       IN  Pow2(m) + LowValue(a \ {m})

\* a <= b as unsigned 32-bit numbers: by the top bit, then by the low 31 bits
U32LessEq(a, b) ==
  LET ta == IF 31 \in a THEN 1 ELSE 0
      tb == IF 31 \in b THEN 1 ELSE 0
  IN  ta < tb \/ (ta = tb /\ LowValue(a) <= LowValue(b))

\* C16: the dual-key sort on [0, n-1] returns the ranks in non-decreasing
\* order and keeps ranks and boxes together: the (rank, box) pairs of the
\* result are a permutation of the pairs of the input.
SortIsCorrect ==
  op = "sortValuesAndBoxes" =>
    LET n == Len(arg.values)
    IN  /\ fault = "none"
        /\ Len(ret.values) = n /\ Len(ret.boxes) = n
        /\ \A p \in 1..(n - 1) : U32LessEq(ret.values[p], ret.values[p + 1])
        /\ \E perm \in [1..n -> 1..n] :
             /\ \A p, q \in 1..n : p # q => perm[p] # perm[q]
             /\ \A p \in 1..n :
                  /\ ret.values[p] = arg.values[perm[p]]
                  /\ ret.boxes[p] = arg.boxes[perm[p]]

\* a slice that starts with the largest rank, holds a rank twice and ends
\* with the box that started first
SortIsCorrectWitness ==
  /\ op = "sortValuesAndBoxes" /\ fault = "none"
  /\ Len(arg.values) = MaxSortLen
  /\ arg.values[1] = {31}
  /\ Cardinality(Range(arg.values)) = 3
  /\ ret.boxes[Len(ret.boxes)] = arg.boxes[1]
  /\ ret.values # arg.values

\* C18: hilbertXYToIndex of order n is collision-free on the grid of order n
\* and its ranks lie in 0 .. 4^n - 1 (they use the low 2n bits; 32 bits at
\* order 16).  No other point of the grid has the rank of the point of the
\* call.
HilbertIsInjective ==
  op = "hilbertXYToIndex" =>
    LET n == arg[1]
    IN  /\ ret \subseteq 0..(2 * n - 1)
        /\ \A x \in GridCoords(n) : \A y \in GridCoords(n) :
             <<x, y>> # <<arg[2], arg[3]>> =>
               hilbertXYToIndex(n, ToU32(x), ToU32(y)) # ret

\* a call of order 16 at the last cell of the grid, whose rank uses bit 31
HilbertIsInjectiveWitness ==
  /\ op = "hilbertXYToIndex"
  /\ arg = <<HilbertOrder, 65535, 0>>
  /\ 31 \in ret

\* the work-queue entries of the Search that led to this state, in the order
\* the loop took them (the index is as the search found it: a search writes
\* nothing to it)
QueueEntries ==
  searchInTree(NodeSize, numItems, levelBounds, boxes, arg, <<>>).popped

\* C17: the work queue of a Search of an index built by Add* and one Finish.
\* Every entry (nodeIndex, level) has 0 <= level <= top level and nodeIndex
\* is the first position of a child window inside that level; nodeIndex <
\* numItems exactly when level = 0; every value returned is the index field
\* of a leaf position.
QueueEntriesAreWindows ==
  (op = "Search" /\ CleanBuild) =>
    /\ \A k \in 1..Len(QueueEntries) :
         LET nodeIndex == QueueEntries[k][1]
             level == QueueEntries[k][2]
             start == IF level = 0 THEN 0 ELSE At(levelBounds, level - 1)
         IN  /\ level \in 0..(Len(levelBounds) - 1)
             /\ nodeIndex >= start
             /\ nodeIndex < At(levelBounds, level)
             /\ (nodeIndex - start) % NodeSize = 0
             /\ (nodeIndex < numItems) <=> (level = 0)
    /\ \A k \in 1..Len(ret) :
         \E p \in 0..(numItems - 1) : At(boxes, p).Index = ret[k]

\* a Search of a three-level tree that took the root window, the window of
\* the two parents and both leaf windows, and returned every box
QueueEntriesAreWindowsWitness ==
  /\ op = "Search" /\ CleanBuild
  /\ levelBounds = <<3, 5, 6>>
  /\ Len(QueueEntries) = 4
  /\ {QueueEntries[k][2] : k \in 1..4} = 0..2
  /\ Len(ret) = 3

\* every added box has min <= max on both axes
WellFormedAdds ==
  \A b \in Range(added) : b.MinX <= b.MaxX /\ b.MinY <= b.MaxY

\* the overall bounds have a positive extent on both axes
NonDegenerateBounds == bounds.MinX < bounds.MaxX /\ bounds.MinY < bounds.MaxY

\* C19: for well-formed boxes and non-degenerate overall bounds the width and
\* the height Finish divides by are the true extents of the overall bounds,
\* and the Hilbert coordinates of every box centre lie in 0 .. 2^16 - 1.
HilbertCoordsInRange ==
  (op = "Finish" /\ CleanBuild /\ WellFormedAdds /\ NonDegenerateBounds) =>
    /\ BoundsWidth(bounds) = bounds.MaxX - bounds.MinX
    /\ BoundsHeight(bounds) = bounds.MaxY - bounds.MinY
    /\ \A b \in Range(added) :
         /\ HilbertCoord(b.MinX, b.MaxX, bounds.MinX, BoundsWidth(bounds),
                         RefConv) \subseteq Mask16
         /\ HilbertCoord(b.MinY, b.MaxY, bounds.MinY, BoundsHeight(bounds),
                         RefConv) \subseteq Mask16

\* twice (centre - overall minimum) on one axis
CentreOffset2(lo, hi, bmin) == (lo + hi) - 2 * bmin

\* the quotient (centre - overall minimum) / w is finite and not negative
QuotientDefined(lo, hi, bmin, w) ==
  /\ w # 0
  /\ CentreOffset2(lo, hi, bmin) = 0 \/ (CentreOffset2(lo, hi, bmin) > 0) = (w > 0)

\* 65535 * (centre - overall minimum) / w, truncated toward zero
TruncatedCoord(lo, hi, bmin, w) ==
  (65535 * Abs(CentreOffset2(lo, hi, bmin))) \div (2 * Abs(w))

\* 65535 * (centre - overall minimum) / w, rounded to the nearest integer
RoundedCoord(lo, hi, bmin, w) ==
  (2 * 65535 * Abs(CentreOffset2(lo, hi, bmin)) + 2 * Abs(w)) \div (4 * Abs(w))

\* after Finish the rank stored with every leaf is the Hilbert rank of the
\* coordinates Coord gives for its box, on the axes where the quotient is
\* defined (w is the extent as Finish computes it)
LeafRanksFollow(Coord(_, _, _, _)) ==
  \A p \in 1..Len(added) :
    LET b == boxes[p]
        w == BoundsWidth(bounds)
        h == BoundsHeight(bounds)
    IN  (QuotientDefined(b.MinX, b.MaxX, bounds.MinX, w)
           /\ QuotientDefined(b.MinY, b.MaxY, bounds.MinY, h)) =>
          hilbertValues[p] =
            hilbertXYToIndex(HilbertOrder,
              ToU32(Coord(b.MinX, b.MaxX, bounds.MinX, w)),
              ToU32(Coord(b.MinY, b.MaxY, bounds.MinY, h)))

\* C20 as written: the Hilbert input coordinate of each box on each axis is
\* 65535 * (centre - overall minimum) / width rounded to the nearest integer.
CoordsAreRounded ==
  (op = "Finish" /\ CleanBuild) => LeafRanksFollow(RoundedCoord)

\* C20 as amended: the Hilbert input coordinate is that value truncated
\* toward zero.
CoordsAreTruncated ==
  (op = "Finish" /\ CleanBuild) => LeafRanksFollow(TruncatedCoord)

\* the scenario boxes (1,1,9,9) and (11,1,19,9): the second one maps to
\* x = 65535 * 14 / 18 = 50971.67, stored as 50971
CoordsAreTruncatedWitness ==
  /\ op = "Finish" /\ CleanBuild
  /\ Len(added) = 2
  /\ bounds = Box(1, 1, 19, 9, -1)
  /\ \E p \in 1..2 :
       /\ boxes[p].MinX = 11
       /\ hilbertValues[p] = hilbertXYToIndex(HilbertOrder, ToU32(50971),
                                               ToU32(32767))

\* the four coordinates of a box
Coords(b) == <<b.MinX, b.MinY, b.MaxX, b.MaxY>>

\* C21: the overall bounds start as the inverted box, which is neutral for
\* box union (folding any box into it gives that box), and after every Add of
\* the Building phase they are the componentwise union of the boxes added so
\* far: the minimum of the added minX / minY, the maximum of the added
\* maxX / maxY.
BoundsAreUnion ==
  /\ Len(added) = 0 =>
       /\ bounds = InvertedBox
       /\ \A b \in BoxInputs : Coords(UnionInto(bounds, b)) = Coords(b)
  /\ (op = "Add" /\ nFinish = 0) =>
       Coords(bounds) = << SetMin({b.MinX : b \in Range(added)}),
                           SetMin({b.MinY : b \in Range(added)}),
                           SetMax({b.MaxX : b \in Range(added)}),
                           SetMax({b.MaxY : b \in Range(added)}) >>

\* the third Add of three different boxes: the bounds are larger than each
BoundsAreUnionWitness ==
  /\ op = "Add" /\ nFinish = 0
  /\ Len(added) = 3
  /\ \A b \in Range(added) : Coords(bounds) # Coords(b)
  /\ Coords(bounds) = <<1, 1, 19, 19>>

\* n copies of one box, as Add calls
SameBoxes(n) == [i \in 1..n |-> Box(1, 1, 9, 9, -1)]

\* C22: for expectedCount >= 0 and fan-out k >= 2, Reserve(expectedCount)
\* sizes the storage to the number of nodes (leaves, internal nodes and the
\* root) that Finish produces for expectedCount boxes with fan-out k.
ReserveCoversBuild ==
  (op = "Reserve" /\ fault = "none" /\ arg >= 0 /\ NodeSize >= 2) =>
    boxesCap = Len(BuildOf(NodeSize, SameBoxes(arg), RefConv).boxes)

\* C23: Finish terminates for every number of added boxes and every
\* configured NodeSize (1, 0 and negative values included): it raises no
\* fault and does not loop for ever, the node count of each level is smaller
\* than the one below it until it is at most 1, where the levels end, and the
\* node array ends with the last parent the last level bound counts.
FinishTerminates ==
  op = "Finish" =>
    /\ fault = "none"
    /\ NodeSize >= 2
    /\ Len(levelBounds) >= 2
    /\ \A i \in 1..(Len(levelBounds) - 1) :
         /\ (i >= 2 \/ LevelCount(levelBounds, i) > 1) =>
              LevelCount(levelBounds, i + 1) < LevelCount(levelBounds, i)
         /\ (i >= 2) => LevelCount(levelBounds, i) > 1
    /\ LevelCount(levelBounds, Len(levelBounds)) <= 1
    /\ Len(boxes) = levelBounds[Len(levelBounds)]

\* Finish of three boxes with NodeSize configured as 1
FinishTerminatesWitness ==
  /\ op = "Finish" /\ fault = "none"
  /\ cfgNodeSize = 1
  /\ Len(added) = 3
  /\ levelBounds = <<3, 5, 6>>
  /\ Len(boxes) = 6

\* C24: Reserve terminates and returns normally for every requested count and
\* every NodeSize that may be configured before Finish, 1 and 0 included.
ReserveReturns == op = "Reserve" => fault = "none"

\* a box whose minimum exceeds its maximum on some axis
Malformed(b) == b.MinX > b.MaxX \/ b.MinY > b.MaxY

\* C25: Add does not validate min <= max.  A malformed box is accepted
\* without a fault, gets the next index, is stored with the coordinates given
\* and is folded into the overall bounds by componentwise min / max; Finish
\* and Search afterwards raise no fault, and Search returns the box exactly
\* when the separating-axis test does not reject it.
MalformedAccepted ==
  /\ (\E b \in Range(added) : Malformed(b)) => fault = "none"
  /\ (op = "Add" /\ Malformed(arg)) =>
       /\ ret = Len(added) - 1
       /\ At(boxes, Len(boxes) - 1) = [arg EXCEPT !.Index = ret]
       /\ Coords(bounds) = << SetMin({b.MinX : b \in Range(added)}),
                               SetMin({b.MinY : b \in Range(added)}),
                               SetMax({b.MaxX : b \in Range(added)}),
                               SetMax({b.MaxY : b \in Range(added)}) >>
  /\ (IsSearch /\ CleanBuild) =>
       \A i \in 0..(Len(added) - 1) :
         Malformed(At(added, i)) =>
           ((i \in Range(ret)) <=> PositiveUnion(At(added, i), arg))

\* a search that returns the malformed box, added second, and another query
\* of the same index would reject it
MalformedAcceptedWitness ==
  /\ IsSearch /\ CleanBuild
  /\ Len(added) = 3
  /\ Malformed(At(added, 1)) /\ ~Malformed(At(added, 0))
  /\ 1 \in Range(ret)
  /\ bounds.MaxX > At(added, 1).MaxX
  /\ \E q \in QueryInputs : ~PositiveUnion(At(added, 1), q)

\* C26: if Add is called after Finish (and Finish is not called again), the
\* call returns normally with the current length of the node array as the
\* index (more than the number of earlier Add calls once the tree has a
\* node), and every Search afterwards returns the empty sequence without a
\* fault: its seed, the last array position, lies at or beyond the top level
\* bound.
AddAfterFinishNotIndexed ==
  (nFinish = 1 /\ "AddAfterFinish" \in violations
     /\ (op = "Add" \/ IsSearch)) =>
    /\ fault = "none"
    /\ Len(boxes) - 1 >= levelBounds[Len(levelBounds)]
    /\ op = "Add" =>
         /\ ret = Len(boxes) - 1
         /\ numItems >= 1 => ret > Len(added) - 1
    /\ IsSearch => ret = <<>>

\* the array positions the loop examines for the queue entry e
Window(e) == e[1]..(WindowEnd(e[1], NodeSize, At(levelBounds, e[2])) - 1)

\* C27: for an index built by Add* and one Finish, Search returns each
\* insertion index at most once: the result has no duplicates and is no
\* longer than the number of added boxes, and the windows of the queue
\* entries of one query do not overlap (no position is examined twice).
NoDuplicates ==
  /\ (IsSearch /\ CleanBuild) =>
       /\ Cardinality(Range(ret)) = Len(ret)
       /\ Len(ret) <= Len(added)
  /\ (op = "Search" /\ CleanBuild) =>
       \E e \in {QueueEntries} :
         \A j \in 1..Len(e) : \A k \in 1..Len(e) :
           j # k => Window(e[j]) \cap Window(e[k]) = {}

\* a search that returns all three boxes of an index that received the same
\* box more than once
NoDuplicatesWitness ==
  /\ IsSearch /\ CleanBuild
  /\ Len(added) = 3
  /\ Cardinality(Range(added)) < 3
  /\ NodeSize = 2
  /\ Len(ret) = 3

\* C28: for an index built by Add* and one Finish, every Search terminates
\* and stays in range.  It raises no fault and ends with an empty queue;
\* every queue entry reads levelBounds at a level in 0 .. top and examines
\* positions inside the node array only; every entry but the seed was pushed
\* from the window of an entry one level higher; there is at most one pop per
\* internal node plus the seed.
SearchStaysInRange ==
  (op = "Search" /\ nFinish = 1 /\ violations = {}) =>
    /\ fault = "none"
    /\ \E r \in {searchInTree(NodeSize, numItems, levelBounds, boxes, arg, <<>>)} :
         /\ r.fault = "none"
         /\ r.queue = <<>>
         /\ Len(r.popped) <= 1 + (Len(boxes) - numItems)
         /\ Len(boxes) >= 1 =>
              /\ Len(r.popped) >= 1
              /\ r.popped[1] = <<Len(boxes) - 1, Len(levelBounds) - 1>>
         /\ \A k \in 1..Len(r.popped) :
              /\ r.popped[k][2] \in 0..(Len(levelBounds) - 1)
              /\ Window(r.popped[k]) # {}
              /\ Window(r.popped[k]) \subseteq 0..(Len(boxes) - 1)
              /\ k >= 2 =>
                   \E j \in 1..(k - 1) :
                     /\ r.popped[j][2] = r.popped[k][2] + 1
                     /\ \E p \in Window(r.popped[j]) :
                          At(boxes, p).Index = r.popped[k][1]

\* a Search of three boxes under the default NodeSize: the leaf window would
\* run to position 16 if the level bound did not end it at 3
SearchStaysInRangeWitness ==
  /\ op = "Search" /\ CleanBuild
  /\ NodeSize = DefaultNodeSize
  /\ levelBounds = <<3, 4>>
  /\ QueueEntries = << <<3, 1>>, <<0, 0>> >>
  /\ Len(ret) = 3

\* C29: the dual-key partition sort terminates on every input and stays in
\* the range it was called with.  In every call that partitions [left,
\* right] the scans of i and j stop inside [left, right] (so no read and no
\* swap leaves the range), and the two recursive calls, on [left, j] and
\* [j + 1, right], are on strictly smaller ranges.
SortStaysInRange ==
  op = "sortValuesAndBoxes" =>
    /\ fault = "none"
    /\ \A k \in 1..Len(ret.partitions) :
         LET c == ret.partitions[k]
         IN  /\ 0 <= c.left /\ c.left < c.right /\ c.right < Len(arg.values)
             /\ c.left <= c.i /\ c.i <= c.right
             /\ c.left <= c.j /\ c.j < c.right
    /\ Len(arg.values) >= 2 =>
         /\ Len(ret.partitions) >= 1
         /\ ret.partitions[1].left = 0
         /\ ret.partitions[1].right = Len(arg.values) - 1

\* four equal ranks: every scan stops at once on a rank equal to the pivot,
\* and the sort partitions three times
SortStaysInRangeWitness ==
  /\ op = "sortValuesAndBoxes" /\ fault = "none"
  /\ Len(arg.values) = MaxSortLen
  /\ Cardinality(Range(arg.values)) = 1
  /\ Len(ret.partitions) = MaxSortLen - 1

====
